---------------------------- MODULE Spec2Model ----------------------------
(***************************************************************************)
(* Model of functions/api/config/index.js: the config API handlers         *)
(* (onRequestGet, onRequestPost) and the homepage handler (onRequest),     *)
(* over the relational store they share (tables sites and category).       *)
(*                                                                         *)
(* Text is modelled as a sequence of atoms (one-character strings, plus    *)
(* the atoms "http://" and "https://" that stand for a URL scheme).        *)
(***************************************************************************)
EXTENDS Integers, Sequences, FiniteSets, TLC

VARIABLES
  sites,      \* table sites: sequence of rows, sites[k].id = k (AUTOINCREMENT);
              \* sort_order holds a tagged value (a number, or text that is no number)
  category,   \* table category: set of rows (read-only for these handlers)
  now,        \* the store's clock, source of create_time (DEFAULT CURRENT_TIMESTAMP)
  env,        \* environment configuration: ICON_API, DISPLAY_CATEGORY
  post,       \* post[i]: the POST /api/config request running in slot i
  get,        \* the GET /api/config request at or past its list query
  home,       \* the last homepage response
  settings,   \* table settings, the keys the wallpaper reads
  indexesChecked,  \* the module's flag of onRequestGet (line 4)
  schema,     \* which of the columns the bootstrap adds the sites table has
  boot,       \* boot[i]: the GET /api/config request in slot i, in its bootstrap
  bootLog     \* executions of the bootstrap block begun and ended so far

vars == <<sites, category, now, env, post, get, home,
          settings, indexesChecked, schema, boot, bootLog>>

-----------------------------------------------------------------------------
(* Bounds of the model *)

MaxSites == 2        \* rows the sites table may hold while POSTs race
MaxPosts == 2        \* POST requests that may be in flight together
MaxReadSites == 4
MaxUrlLen == 4
MaxGets == 2
MaxBootRuns == 2
MaxFeed == 3
MaxCookieIndex == 3    \* rows the sites table may hold while it is read

(* Program constants *)

DefaultSortOrder == 9999
FetchAllPageSize == 1000
DefaultPage == 1
DefaultPageSize == 10

-----------------------------------------------------------------------------
(* JavaScript and SQL values *)

Undefined == <<"undefined">>     \* a text parameter or body field that is absent
Null == <<"NULL">>               \* SQL NULL / JavaScript null in a text column

JsUndefined == [t |-> "undefined", v |-> 0]
JsNull == [t |-> "null", v |-> 0]
JsNum(n) == [t |-> "number", v |-> n]
JsBool(b) == [t |-> "boolean", v |-> IF b THEN 1 ELSE 0]
JsText == [t |-> "string", v |-> 0]      \* a non-empty, non-numeric string

\* JavaScript truthiness of a body value: `is_private ? 1 : 0`
Truthy(x) ==
  \/ x.t = "boolean" /\ x.v = 1
  \/ x.t = "number" /\ x.v # 0
  \/ x.t = "string"

\* Number.isFinite(Number(val)): undefined and non-numeric text give NaN, null gives 0
IsFiniteNumber(x) == x.t \in {"number", "null", "boolean"}

normalizeSortOrder(val) == IF IsFiniteNumber(val) THEN val.v ELSE DefaultSortOrder

RECURSIVE TrimLeft(_)
TrimLeft(s) == IF s # <<>> /\ Head(s) = " " THEN TrimLeft(Tail(s)) ELSE s

RECURSIVE TrimRight(_)
TrimRight(s) ==
  IF s # <<>> /\ s[Len(s)] = " " THEN TrimRight(SubSeq(s, 1, Len(s) - 1)) ELSE s

\* String.prototype.trim
Trim(s) == TrimRight(TrimLeft(s))

\* (x || ''): undefined, null and '' all give ''
OrEmpty(x) == IF x \in {Undefined, Null} THEN <<>> ELSE x

\* (x || '').trim()
TrimField(x) == Trim(OrEmpty(x))

\* (x || '').trim() || null
TrimOrNull(x) == IF TrimField(x) = <<>> THEN Null ELSE TrimField(x)

-----------------------------------------------------------------------------
(* The store *)

SiteRow(id, name, url, logo, desc, cid, cname, sort, priv, ctime) ==
  [id |-> id, name |-> name, url |-> url, logo |-> logo, desc |-> desc,
   catelog_id |-> cid, catelog_name |-> cname, sort_order |-> sort,
   is_private |-> priv, create_time |-> ctime]

CategoryRow(id, name, priv, sort) ==
  [id |-> id, catelog |-> name, is_private |-> priv, sort_order |-> sort]

\* the sites table has the columns is_private and catelog_name
FullSchema == [is_private |-> TRUE, catelog_name |-> TRUE]

Rows == {sites[k] : k \in 1..Len(sites)}

SelectNoSite(url) == {}

\* SELECT id FROM sites WHERE url = ?  (.first() is null when no row matches)
SelectSiteByUrl(url) == {r \in Rows : r.url = url}

\* SELECT catelog, is_private FROM category WHERE id = ?
SelectCategoryById(id) == {c \in category : c.id = id}

\* INSERT INTO sites (...) VALUES (...): id and create_time are the store's defaults
InsertSite(name, url, logo, desc, cid, cname, sort, priv) ==
  Append(sites, SiteRow(Len(sites) + 1, name, url, logo, desc, cid, cname, sort, priv, now))

-----------------------------------------------------------------------------
(* POST /api/config: onRequestPost *)

Posts == 1..MaxPosts

BodyNames == {<<" ">>, <<"n">>}
BodyUrls == {Undefined, <<"http://", "h">>, <<" ", "http://", "h">>, <<"h">>}
BodyLogos == {Undefined}
BodyDescs == {Undefined}
BodyCatelogIds == {0, 1, 2, 9}
BodySortOrders == {JsUndefined}
BodyPrivates == {JsUndefined, JsBool(TRUE), JsBool(FALSE), JsText}

Bodies ==
  [name : BodyNames, url : BodyUrls, logo : BodyLogos, desc : BodyDescs,
   catelogId : BodyCatelogIds, sort_order : BodySortOrders, is_private : BodyPrivates]

\* what request.json() yields when the body cannot be read: the handler throws
\* before any field is looked at, so every field counts as absent
NoBody ==
  [name |-> Undefined, url |-> Undefined, logo |-> Undefined, desc |-> Undefined,
   catelogId |-> 0, sort_order |-> JsUndefined, is_private |-> JsUndefined]

Schemes == {"http://", "https://"}

\* url.startsWith('https://') || url.startsWith('http://')
HasHttpScheme(url) == url # <<>> /\ Head(url) \in Schemes

RECURSIVE UpToSlash(_)
UpToSlash(s) ==
  IF s = <<>> \/ Head(s) = "/" THEN <<>> ELSE <<Head(s)>> \o UpToSlash(Tail(s))

\* url.replace(/^https?:\/\//, '').split('/')[0]
DomainOf(url) == UpToSlash(IF HasHttpScheme(url) THEN Tail(url) ELSE url)

FaviconIm == <<"https://", "f", "/">>      \* 'https://favicon.im/'
LargerSuffix == <<"?", "L">>               \* '?larger=true'

\* the logo bound to the INSERT (lines 112, 116, 131-140)
StoredLogo(logo, url) ==
  IF OrEmpty(logo) = <<>> /\ OrEmpty(url) # <<>> /\ HasHttpScheme(url)
  THEN IF OrEmpty(env.ICON_API) = <<>>
       THEN FaviconIm \o DomainOf(url) \o LargerSuffix
       ELSE env.ICON_API \o DomainOf(url)
  ELSE TrimOrNull(logo)

MissingUrlOrCatelog(b) == TrimField(b.url) = <<>> \/ b.catelogId = 0

\* !sanitizedName || !sanitizedUrl || !catelogId
MissingField(b) == TrimField(b.name) = <<>> \/ TrimField(b.url) = <<>> \/ b.catelogId = 0

RequestedIsPrivate(isPrivateValue, cat) == isPrivateValue

\* if (categoryResult.is_private === 1) finalIsPrivate = 1
FinalIsPrivate(isPrivateValue, cat) == IF cat.is_private = 1 THEN 1 ELSE isPrivateValue

Idle ==
  [pc |-> "idle", status |-> 0, auth |-> FALSE, parsed |-> FALSE, fieldsOk |-> FALSE,
   dup |-> FALSE, catKnown |-> FALSE, reqPrivate |-> FALSE, queries |-> 0, rowId |-> 0,
   name |-> <<>>, url |-> <<>>, logo |-> Null, desc |-> Null, catelogId |-> 0,
   catelog |-> <<>>, sort |-> JsNull, priv |-> 0]

\* the request as it is once its body is read; dup is whether a row with the
\* trimmed url is stored at that moment, catKnown whether catelogId names a
\* category row
Arrived(b, parsed) ==
  [Idle EXCEPT !.auth = TRUE, !.parsed = parsed,
               !.fieldsOk = /\ Trim(OrEmpty(b.name)) # <<>>
                            /\ Trim(OrEmpty(b.url)) # <<>>
                            /\ b.catelogId # 0,
               !.dup = \E k \in 1..Len(sites) : sites[k].url = Trim(OrEmpty(b.url)),
               !.catKnown = \E c \in category : c.id = b.catelogId,
               !.reqPrivate = Truthy(b.is_private), !.catelogId = b.catelogId]

\* the request once answered: its locals are gone, what it was and did remains
\* (reqPrivate only for a request that inserted its row)
Respond(r, code) ==
  [Idle EXCEPT !.pc = "done", !.status = code, !.auth = r.auth, !.parsed = r.parsed,
               !.fieldsOk = r.fieldsOk, !.dup = r.dup, !.catKnown = r.catKnown,
               !.reqPrivate = (code = 201 /\ r.reqPrivate),
               !.queries = r.queries, !.rowId = r.rowId]

InFlight == Cardinality({i \in Posts : post[i].pc \in {"lookup", "insert"}})

\* lines 105-107: the caller is not an admin
PostUnauthorized(i) ==
  /\ post[i].pc = "idle"
  /\ post' = [post EXCEPT ![i] = [Idle EXCEPT !.pc = "done", !.status = 401]]
  /\ UNCHANGED <<sites, category, now, env, get, home,
               settings, indexesChecked, schema, boot, bootLog>>

\* line 110 throws: the body is not JSON
PostBadBody(i) ==
  /\ post[i].pc = "idle"
  /\ post' = [post EXCEPT ![i] = Respond(Arrived(NoBody, FALSE), 500)]
  /\ UNCHANGED <<sites, category, now, env, get, home,
               settings, indexesChecked, schema, boot, bootLog>>

\* lines 110-129: read the body, validate, look the url up
PostCheck(i) ==
  /\ post[i].pc = "idle"
  /\ \E b \in Bodies, dbOk \in BOOLEAN :
       LET r == Arrived(b, TRUE) IN
       IF MissingField(b) THEN
         post' = [post EXCEPT ![i] = Respond(r, 400)]
       ELSE IF ~dbOk THEN
         post' = [post EXCEPT ![i] = Respond([r EXCEPT !.queries = 1], 500)]
       ELSE IF SelectSiteByUrl(TrimField(b.url)) # {} THEN
         post' = [post EXCEPT ![i] = Respond([r EXCEPT !.queries = 1], 409)]
       ELSE
         /\ Len(sites) + InFlight < MaxSites
         /\ post' = [post EXCEPT ![i] =
              [r EXCEPT !.pc = "lookup", !.queries = 1,
                        !.url = TrimField(b.url),
                        !.name = TrimField(b.name),
                        !.logo = StoredLogo(b.logo, b.url),
                        !.desc = TrimOrNull(b.desc),
                        !.sort = JsNum(normalizeSortOrder(b.sort_order)),
                        !.priv = IF Truthy(b.is_private) THEN 1 ELSE 0]]
  /\ UNCHANGED <<sites, category, now, env, get, home,
               settings, indexesChecked, schema, boot, bootLog>>

\* lines 141-152: resolve catelogId
PostLookup(i) ==
  /\ post[i].pc = "lookup"
  /\ \E dbOk \in BOOLEAN :
       LET r == [post[i] EXCEPT !.queries = 2]
           found == SelectCategoryById(r.catelogId) IN
       IF ~dbOk THEN post' = [post EXCEPT ![i] = Respond(r, 500)]
       ELSE IF found = {} THEN post' = [post EXCEPT ![i] = Respond(r, 400)]
       ELSE \E c \in found :
              post' = [post EXCEPT ![i] =
                [r EXCEPT !.pc = "insert", !.catelog = c.catelog,
                          !.priv = FinalIsPrivate(r.priv, c)]]
  /\ UNCHANGED <<sites, category, now, env, get, home,
               settings, indexesChecked, schema, boot, bootLog>>

\* lines 154-163: insert the row
PostInsert(i) ==
  /\ post[i].pc = "insert"
  /\ \E dbOk \in BOOLEAN :
       LET r == [post[i] EXCEPT !.queries = 3] IN
       IF ~dbOk \/ schema # FullSchema THEN
         /\ post' = [post EXCEPT ![i] = Respond(r, 500)]
         /\ UNCHANGED sites
       ELSE
         /\ sites' = InsertSite(r.name, r.url, r.logo, r.desc, r.catelogId,
                                r.catelog, r.sort, r.priv)
         /\ post' = [post EXCEPT ![i] = Respond([r EXCEPT !.rowId = Len(sites) + 1], 201)]
  /\ UNCHANGED <<category, now, env, get, home,
               settings, indexesChecked, schema, boot, bootLog>>

\* the response is delivered and the slot is free for the next request
PostReturn(i) ==
  /\ post[i].pc = "done"
  /\ post' = [post EXCEPT ![i] = Idle]
  /\ UNCHANGED <<sites, category, now, env, get, home,
               settings, indexesChecked, schema, boot, bootLog>>

-----------------------------------------------------------------------------
(* SQL as the handlers use it *)

\* SQLite compares case-insensitively in LIKE for ASCII letters
Lower(c) ==
  CASE c = "A" -> "a" [] c = "B" -> "b" [] c = "N" -> "n" [] c = "L" -> "l"
    [] OTHER -> c

LowerText(s) == [k \in 1..Len(s) |-> Lower(s[k])]

\* text LIKE '%' || keyword || '%'  (NULL LIKE ... is not true)
Like(text, keyword) ==
  /\ text # Null
  /\ \E k \in 0..(Len(text) - Len(keyword)) :
       LowerText(SubSeq(text, k + 1, k + Len(keyword))) = LowerText(keyword)

\* storage classes order as NULL < numbers < text
SqlClass(x) == CASE x.t = "null" -> 0 [] x.t = "string" -> 2 [] OTHER -> 1

SqlLess(x, y) ==
  \/ SqlClass(x) < SqlClass(y)
  \/ SqlClass(x) = 1 /\ SqlClass(y) = 1 /\ x.v < y.v

\* ORDER BY sort_order ASC, create_time DESC: a sorts strictly before b
OrderedBefore(a, b) ==
  \/ SqlLess(a.sort_order, b.sort_order)
  \/ /\ ~SqlLess(b.sort_order, a.sort_order)
     /\ a.create_time > b.create_time

Perms(S) ==
  {p \in [1..Cardinality(S) -> S] : \A j, k \in 1..Cardinality(S) : p[j] = p[k] => j = k}

\* every order in which the store may deliver the rows S under that ORDER BY
\* (rows that tie come in either order)
SqlOrders(S) ==
  {p \in Perms(S) : \A j, k \in 1..Cardinality(S) : j < k => ~OrderedBefore(p[k], p[j])}

OffsetThenLimit(rows, limit, offset) ==
  SubSeq(rows, limit + 1, IF Len(rows) < limit + offset THEN Len(rows) ELSE limit + offset)

\* LIMIT ? OFFSET ? with both non-negative
LimitOffset(rows, limit, offset) ==
  SubSeq(rows, offset + 1, IF Len(rows) < offset + limit THEN Len(rows) ELSE offset + limit)

-----------------------------------------------------------------------------
(* GET /api/config: onRequestGet *)

Present(x) == x.t # "undefined"

\* parseInt(param || fallback, 10) for a parameter that is absent or a number
ParseIntOr(x, fallback) == IF Present(x) THEN x.v ELSE fallback

VisibleInverted(r, includePrivate) == r.is_private = 0 \/ includePrivate = 0

\* (s.is_private = 0 OR ? = 1)
Visible(r, includePrivate) == r.is_private = 0 \/ includePrivate = 1

\* queryBase with its bind parameters (lines 58-72)
Matches(r, q) ==
  /\ Visible(r, IF q.auth THEN 1 ELSE 0)
  /\ IF Present(q.catalogId) THEN r.catelog_id = q.catalogId.v
     ELSE IF OrEmpty(q.catalog) # <<>> THEN r.catelog_name = q.catalog
     ELSE TRUE
  /\ OrEmpty(q.keyword) # <<>> =>
       \/ Like(r.name, q.keyword) \/ Like(r.url, q.keyword)
       \/ Like(r.catelog_name, q.keyword) \/ Like(r.desc, q.keyword)

Matching(q) == {r \in Rows : Matches(r, q)}

OffsetOf(page, pageSize) == (page - 1) * pageSize

CountAlways(pageSize) == FALSE

\* pageSize >= 1000: the count query is left out
SkipsCount(pageSize) == pageSize >= FetchAllPageSize

GetCatalogIds == {JsUndefined, JsNum(1)}
GetCatalogs == {Undefined, <<"B">>}
GetKeywords == {Undefined, <<"a">>}
GetPages == {JsUndefined, JsNum(2)}
GetPageSizes == {JsUndefined, JsNum(1), JsNum(2), JsNum(1000)}

Queries ==
  [auth : BOOLEAN, catalogId : GetCatalogIds, catalog : GetCatalogs,
   keyword : GetKeywords, page : GetPages, pageSize : GetPageSizes]

NoQuery ==
  [auth |-> FALSE, catalogId |-> JsUndefined, catalog |-> Undefined,
   keyword |-> Undefined, page |-> JsUndefined, pageSize |-> JsUndefined]

NoGet ==
  [pc |-> "idle", q |-> NoQuery, status |-> 0, data |-> <<>>, total |-> 0,
   page |-> 0, pageSize |-> 0, counted |-> FALSE,
   bootFailed |-> FALSE, queryFailed |-> FALSE]

Gets == 1..MaxGets

\* a request that has not reached line 10, or is past line 42 and handed on
NoBoot == [pc |-> "idle", failed |-> FALSE]

NoRuns == [begun |-> 0, ended |-> 0]

\* a process that has run its bootstrap, on a table that has both columns
Bootstrapped ==
  /\ indexesChecked = TRUE
  /\ schema = FullSchema
  /\ boot = [i \in Gets |-> NoBoot]
  /\ bootLog = NoRuns

BootFailureAborts(slot) == [slot EXCEPT !.pc = "aborted", !.failed = TRUE]

\* catch (e) { console.error(...) } of lines 38-41: on to line 44
BootFailureCaught(slot) == [slot EXCEPT !.pc = "ready", !.failed = TRUE]

\* a step of the block threw: the block's execution ends there
BootThrows(i) ==
  /\ boot' = [boot EXCEPT ![i] = BootFailureCaught(boot[i])]
  /\ bootLog' = [bootLog EXCEPT !.ended = @ + 1]
  /\ UNCHANGED <<indexesChecked, schema, sites>>

\* line 37, reached with no throw
BootSucceeds(i) ==
  /\ boot' = [boot EXCEPT ![i].pc = "ready"]
  /\ bootLog' = [bootLog EXCEPT !.ended = @ + 1]
  /\ indexesChecked' = TRUE

\* lines 10-15: the flag is not set, the batch of CREATE INDEX is sent
BootEnter(i) ==
  /\ boot[i].pc = "idle" /\ ~indexesChecked
  /\ bootLog.begun < MaxBootRuns
  /\ boot' = [boot EXCEPT ![i].pc = "batch"]
  /\ bootLog' = [bootLog EXCEPT !.begun = @ + 1]
  /\ UNCHANGED <<sites, category, now, env, post, get, home, settings,
                 indexesChecked, schema>>

\* lines 12-19: the batch answers; the probe of is_private is sent
BootBatch(i) ==
  /\ boot[i].pc = "batch"
  /\ \E dbOk \in BOOLEAN :
       IF dbOk
       THEN /\ boot' = [boot EXCEPT ![i].pc = "probePrivate"]
            /\ UNCHANGED <<bootLog, indexesChecked, schema, sites>>
       ELSE BootThrows(i)
  /\ UNCHANGED <<category, now, env, post, get, home, settings>>

\* lines 18-26: the probe answers, or throws and ALTER TABLE is sent
BootProbePrivate(i) ==
  /\ boot[i].pc = "probePrivate"
  /\ \E dbOk \in BOOLEAN :
       boot' = [boot EXCEPT ![i].pc =
                  IF dbOk /\ schema.is_private THEN "probeName" ELSE "alterPrivate"]
  /\ UNCHANGED <<sites, category, now, env, post, get, home, settings,
                 indexesChecked, schema, bootLog>>

\* lines 21-26: ALTER TABLE sites ADD COLUMN is_private INTEGER DEFAULT 0
BootAlterPrivate(i) ==
  /\ boot[i].pc = "alterPrivate"
  /\ \E dbOk \in BOOLEAN :
       IF dbOk /\ ~schema.is_private
       THEN /\ schema' = [schema EXCEPT !.is_private = TRUE]
            /\ sites' = [k \in 1..Len(sites) |-> [sites[k] EXCEPT !.is_private = 0]]
            /\ boot' = [boot EXCEPT ![i].pc = "probeName"]
            /\ UNCHANGED <<bootLog, indexesChecked>>
       ELSE BootThrows(i)
  /\ UNCHANGED <<category, now, env, post, get, home, settings>>

\* lines 25-37: the probe of catelog_name answers and the flag is set, or it
\* throws and ALTER TABLE is sent
BootProbeName(i) ==
  /\ boot[i].pc = "probeName"
  /\ \E dbOk \in BOOLEAN :
       IF dbOk /\ schema.catelog_name
       THEN BootSucceeds(i)
       ELSE /\ boot' = [boot EXCEPT ![i].pc = "alterName"]
            /\ UNCHANGED <<bootLog, indexesChecked>>
  /\ UNCHANGED <<sites, category, now, env, post, get, home, settings, schema>>

\* lines 28-34: ALTER TABLE sites ADD COLUMN catelog_name TEXT; the UPDATE is sent
BootAlterName(i) ==
  /\ boot[i].pc = "alterName"
  /\ \E dbOk \in BOOLEAN :
       IF dbOk /\ ~schema.catelog_name
       THEN /\ schema' = [schema EXCEPT !.catelog_name = TRUE]
            /\ sites' = [k \in 1..Len(sites) |-> [sites[k] EXCEPT !.catelog_name = Null]]
            /\ boot' = [boot EXCEPT ![i].pc = "backfill"]
            /\ UNCHANGED <<bootLog, indexesChecked>>
       ELSE BootThrows(i)
  /\ UNCHANGED <<category, now, env, post, get, home, settings>>

\* (SELECT catelog FROM category WHERE category.id = sites.catelog_id)
CategoryNameOf(id) ==
  IF \E c \in category : c.id = id
  THEN (CHOOSE c \in category : c.id = id).catelog ELSE Null

\* lines 30-37: the UPDATE of the rows whose catelog_name is null; the flag is set
BootBackfill(i) ==
  /\ boot[i].pc = "backfill"
  /\ \E dbOk \in BOOLEAN :
       IF dbOk /\ schema.catelog_name
       THEN /\ sites' = [k \in 1..Len(sites) |->
                          IF sites[k].catelog_name = Null
                          THEN [sites[k] EXCEPT !.catelog_name =
                                  CategoryNameOf(sites[k].catelog_id)]
                          ELSE sites[k]]
            /\ BootSucceeds(i)
       ELSE BootThrows(i)
  /\ UNCHANGED <<category, now, env, post, get, home, settings, schema>>

\* the columns the list and count queries name are there
QueryColumnsExist(q) ==
  /\ schema.is_private
  /\ schema.catelog_name
       \/ /\ Present(q.catalogId) \/ OrEmpty(q.catalog) = <<>>
          /\ OrEmpty(q.keyword) = <<>>

NoHome == [pc |-> "idle"]

\* lines 44-84: the page query, and the whole answer when pageSize >= 1000
GetPage ==
  /\ get.pc = "idle" /\ home.pc = "idle"
  /\ \E i \in 0..MaxGets :
       /\ IF i = 0 THEN indexesChecked /\ UNCHANGED boot
          ELSE boot[i].pc = "ready" /\ boot' = [boot EXCEPT ![i] = NoBoot]
       /\ \E q \in Queries, dbOk \in BOOLEAN :
            LET page == ParseIntOr(q.page, DefaultPage)
                pageSize == ParseIntOr(q.pageSize, DefaultPageSize)
                r == [NoGet EXCEPT !.q = q, !.page = page, !.pageSize = pageSize,
                                   !.bootFailed = (i # 0 /\ boot[i].failed)] IN
            IF ~dbOk \/ ~QueryColumnsExist(q)
            THEN get' = [r EXCEPT !.pc = "done", !.status = 500, !.queryFailed = TRUE]
            ELSE \E all \in SqlOrders(Matching(q)) :
                   LET results == LimitOffset(all, pageSize, OffsetOf(page, pageSize)) IN
                   IF SkipsCount(pageSize)
                   THEN get' = [r EXCEPT !.pc = "done", !.status = 200, !.data = results,
                                         !.total = Len(results) + OffsetOf(page, pageSize)]
                   ELSE get' = [r EXCEPT !.pc = "count", !.data = results]
  /\ UNCHANGED <<sites, category, now, env, post, home,
                 settings, indexesChecked, schema, bootLog>>

\* lines 85-96: the count query and the answer
GetCount ==
  /\ get.pc = "count"
  /\ \E dbOk \in BOOLEAN :
       IF ~dbOk \/ ~QueryColumnsExist(get.q)
       THEN get' = [get EXCEPT !.pc = "done", !.status = 500, !.data = <<>>,
                               !.queryFailed = TRUE]
       ELSE get' = [get EXCEPT !.pc = "done", !.status = 200, !.counted = TRUE,
                               !.total = Cardinality(Matching(get.q))]
  /\ UNCHANGED <<sites, category, now, env, post, home,
               settings, indexesChecked, schema, boot, bootLog>>

GetReturn ==
  /\ get.pc = "done"
  /\ get' = NoGet
  /\ UNCHANGED <<sites, category, now, env, post, home,
               settings, indexesChecked, schema, boot, bootLog>>

-----------------------------------------------------------------------------
(* GET /: onRequest, the homepage *)

Uncategorized == <<"-">>                \* '未分类'
AllWord == <<"a", "l", "l">>            \* 'all'
AllBookmarks == <<"*">>                 \* '全部收藏'

\* SELECT s.*, c.catelog FROM sites s INNER JOIN category c ON s.catelog_id = c.id
\* WHERE (s.is_private = 0 OR ? = 1)
Loaded(includePrivate) ==
  {("catelog" :> c.catelog) @@ r :
     <<r, c>> \in {x \in Rows \X category :
                     x[1].catelog_id = x[2].id /\ Visible(x[1], includePrivate)}}

\* (site.catelog || '').trim() || '未分类'
CategoryName(site) ==
  IF TrimField(site.catelog) = <<>> THEN Uncategorized ELSE TrimField(site.catelog)

InSeq(x, seq) == \E k \in 1..Len(seq) : seq[k] = x

\* categorySet: the names in the order of their first site
RECURSIVE CategorySet(_)
CategorySet(rows) ==
  IF rows = <<>> THEN <<>>
  ELSE LET before == CategorySet(SubSeq(rows, 1, Len(rows) - 1))
           name == CategoryName(rows[Len(rows)]) IN
       IF InSeq(name, before) THEN before ELSE Append(before, name)

\* categoryIdMap.get(name): catelog_id of the first site of the name that has one
RECURSIVE CategoryId(_, _)
CategoryId(rows, name) ==
  IF rows = <<>> THEN 0
  ELSE IF CategoryName(Head(rows)) = name /\ Head(rows).catelog_id # 0
       THEN Head(rows).catelog_id
       ELSE CategoryId(Tail(rows), name)

\* Number.isFinite(rawSort) ? rawSort : 9999
SiteSort(site) == normalizeSortOrder(site.sort_order)

\* categoryMinSort.get(name), for a name that has a site
RECURSIVE CategoryMinSort(_, _)
CategoryMinSort(rows, name) ==
  LET before == SubSeq(rows, 1, Len(rows) - 1)
      last == rows[Len(rows)]
      seen == \E k \in 1..Len(before) : CategoryName(before[k]) = name IN
  IF CategoryName(last) # name THEN CategoryMinSort(before, name)
  ELSE IF ~seen \/ SiteSort(last) < CategoryMinSort(before, name) THEN SiteSort(last)
  ELSE CategoryMinSort(before, name)

\* categoryOrderMap: declared order by the category's name as stored
HasDeclaredOrder(orderRows, name) == \E c \in orderRows : c.catelog = name

DeclaredOrder(orderRows, name) ==
  normalizeSortOrder((CHOOSE c \in orderRows : c.catelog = name).sort_order)

CatalogOrder(orderRows, rows, name) ==
  IF HasDeclaredOrder(orderRows, name) THEN DeclaredOrder(orderRows, name)
  ELSE CategoryMinSort(rows, name)

CatalogMeta(orderRows, rows, name) ==
  [name |-> name, order |-> CatalogOrder(orderRows, rows, name),
   fallback |-> CategoryMinSort(rows, name), id |-> CategoryId(rows, name)]

\* primary collation weight of an atom under zh-Hans-CN, sensitivity 'base':
\* letter case is ignored, Han characters follow Latin letters
BaseWeight(c) ==
  CASE Lower(c) = " " -> 0 [] Lower(c) = "a" -> 1 [] Lower(c) = "b" -> 2
    [] Lower(c) = "l" -> 3 [] Lower(c) = "n" -> 4 [] OTHER -> 9

\* a.localeCompare(b, 'zh-Hans-CN', { sensitivity: 'base' }): negative, 0, positive
RECURSIVE localeCompare(_, _)
localeCompare(a, b) ==
  IF a = <<>> /\ b = <<>> THEN 0
  ELSE IF a = <<>> THEN -1
  ELSE IF b = <<>> THEN 1
  ELSE IF BaseWeight(Head(a)) # BaseWeight(Head(b))
       THEN BaseWeight(Head(a)) - BaseWeight(Head(b))
  ELSE localeCompare(Tail(a), Tail(b))

CompareByNameOnly(a, b) == localeCompare(a.name, b.name)

\* the comparator of catalogsWithMeta.sort (lines 273-277)
CompareCatalogs(a, b) ==
  IF a.order # b.order THEN a.order - b.order
  ELSE IF a.fallback # b.fallback THEN a.fallback - b.fallback
  ELSE localeCompare(a.name, b.name)

\* Array.prototype.sort is stable: x goes before the first element it precedes
RECURSIVE InsertSorted(_, _)
InsertSorted(sorted, x) ==
  IF sorted = <<>> THEN <<x>>
  ELSE IF CompareCatalogs(x, Head(sorted)) < 0 THEN <<x>> \o sorted
  ELSE <<Head(sorted)>> \o InsertSorted(Tail(sorted), x)

RECURSIVE SortCatalogs(_)
SortCatalogs(metas) ==
  IF metas = <<>> THEN <<>>
  ELSE InsertSorted(SortCatalogs(SubSeq(metas, 1, Len(metas) - 1)), metas[Len(metas)])

\* catalogsWithMeta after the sort (lines 267-277)
CatalogsWithMeta(orderRows, rows) ==
  SortCatalogs([k \in 1..Len(CategorySet(rows)) |->
                  CatalogMeta(orderRows, rows, CategorySet(rows)[k])])

NamesOf(metas) == [k \in 1..Len(metas) |-> metas[k].name]

DefaultEvenForAll(catalog, catalogs) ==
  LET requested == Trim(OrEmpty(catalog))
      defaultCat == Trim(OrEmpty(env.DISPLAY_CATEGORY)) IN
  IF (requested = <<>> \/ LowerText(requested) = AllWord) /\ InSeq(defaultCat, catalogs)
  THEN defaultCat ELSE requested

\* requestedCatalog after lines 282-296
RequestedCatalog(catalog, catalogs) ==
  LET requested == Trim(OrEmpty(catalog))
      explicitAll == LowerText(requested) = AllWord
      defaultCat == Trim(OrEmpty(env.DISPLAY_CATEGORY)) IN
  IF explicitAll THEN <<>>
  ELSE IF requested = <<>> /\ OrEmpty(env.DISPLAY_CATEGORY) # <<>>
          /\ InSeq(defaultCat, catalogs)
       THEN defaultCat
  ELSE requested

SelectSeq2(rows, name) == SelectSeq(rows, LAMBDA r : CategoryName(r) = name)

FirstCatalogSites(catalogExists, currentCatalog, rows) == SelectSeq2(rows, currentCatalog)

\* currentSites (lines 300-305)
CurrentSites(catalogExists, currentCatalog, rows) ==
  IF catalogExists THEN SelectSeq2(rows, currentCatalog) ELSE rows

HomeCatalogs == {Undefined, AllWord, <<" ", "A", "L", "L", " ">>, <<"a">>, <<"b">>}

\* the settings as they are when the table holds none of the keys (lines 314-316)
NoSettings == [layout_random_wallpaper |-> FALSE, layout_custom_wallpaper |-> <<>>]

\* escapeHTML (lines 173-181), atom by atom
EscapeAtom(c) ==
  CASE c = "&" -> "&amp;"
    [] c = "<" -> "&lt;"
    [] c = ">" -> "&gt;"
    [] c = "\"" -> "&quot;"
    [] c = "'" -> "&#39;"
    [] OTHER -> c

escapeHTML(str) ==
  IF str \in {Undefined, Null, <<>>} THEN <<>>
  ELSE [k \in 1..Len(str) |-> EscapeAtom(str[k])]

HttpSchemes == {"http://", "https://", "HTTP://"}
JavascriptScheme == "javascript:"

\* the text without its leading '/' atoms
RECURSIVE SkipSlashes(_)
SkipSlashes(text) ==
  IF text # <<>> /\ Head(text) = "/" THEN SkipSlashes(Tail(text)) ELSE text

\* the path as the parser serialises it: a blank becomes %20
EncodePath(path) ==
  IF path = <<>> THEN <<"/">>
  ELSE [k \in 1..Len(path) |-> IF path[k] = " " THEN "%20" ELSE path[k]]

NotAUrl == [ok |-> FALSE, protocol |-> "", href |-> <<>>]

\* new URL(trimmed) (line 188) on the texts of the model: a text with no scheme
\* is no absolute URL; after http:// or https:// (any letter case, any number
\* of further slashes) the host runs to the next '/' and must be non-empty and
\* free of blanks; the scheme is lower-cased and the path normalised.  A
\* javascript: text parses as it stands, its authority after '//' permitting.
ParseUrl(text) ==
  IF text = <<>> THEN NotAUrl
  ELSE IF Head(text) \in HttpSchemes THEN
    LET rest == SkipSlashes(Tail(text))
        host == UpToSlash(rest)
        path == SubSeq(rest, Len(host) + 1, Len(rest))
        scheme == IF Head(text) = "https://" THEN "https://" ELSE "http://" IN
    IF host = <<>> \/ \E k \in 1..Len(host) : host[k] = " " THEN NotAUrl
    ELSE [ok |-> TRUE,
          protocol |-> IF scheme = "https://" THEN "https:" ELSE "http:",
          href |-> <<scheme>> \o host \o EncodePath(path)]
  ELSE IF Head(text) = JavascriptScheme THEN
    LET rest == Tail(text)
        host == IF Len(rest) >= 2 /\ rest[1] = "/" /\ rest[2] = "/"
                THEN UpToSlash(SubSeq(rest, 3, Len(rest))) ELSE <<>> IN
    IF \E k \in 1..Len(host) : host[k] = " " THEN NotAUrl
    ELSE [ok |-> TRUE, protocol |-> "javascript:", href |-> text]
  ELSE NotAUrl

sanitizeAnyScheme(url) ==
  IF url \in {Undefined, Null, <<>>} \/ Trim(url) = <<>> THEN <<>>
  ELSE IF ParseUrl(Trim(url)).ok THEN ParseUrl(Trim(url)).href
  ELSE Trim(url)

\* sanitizeUrl (lines 183-199)
sanitizeUrl(url) ==
  IF url \in {Undefined, Null, <<>>} THEN <<>>
  ELSE LET trimmed == Trim(url)
           parsed == ParseUrl(trimmed) IN
       IF trimmed = <<>> THEN <<>>
       ELSE IF parsed.ok
            THEN IF parsed.protocol # "http:" /\ parsed.protocol # "https:"
                 THEN <<>> ELSE parsed.href
       ELSE IF Head(trimmed) \in HttpSchemes THEN trimmed
       ELSE <<>>

Hash == <<"#">>

\* the link and the icon of a site's card (lines 463-515)
Card(site) ==
  LET normalizedUrl == sanitizeUrl(site.url)
      logoUrl == sanitizeUrl(site.logo) IN
  [href |-> escapeHTML(IF normalizedUrl = <<>> THEN Hash ELSE normalizedUrl),
   hasValidUrl |-> normalizedUrl # <<>>,
   img |-> logoUrl # <<>>,
   src |-> escapeHTML(logoUrl)]

Digit(k) == CASE k = 1 -> "1" [] k = 2 -> "2" [] k = 3 -> "3" [] k = 4 -> "4"
              [] k = 5 -> "5" [] OTHER -> "6"

JsInfinity == [t |-> "Infinity", v |-> 0]
JsNaN == [t |-> "NaN", v |-> 0]

\* the request's Cookie header as line 353 reads it: without wallpaper_index,
\* with a value that does not begin with a digit, with the digits of a small
\* number, or with a run of digits beyond the range of a double
NoCookie == [t |-> "absent", v |-> 0]

Cookies ==
  {NoCookie, [t |-> "garbage", v |-> 0], [t |-> "huge", v |-> 0]}
    \cup {[t |-> "digits", v |-> k] : k \in 0..MaxCookieIndex}

\* match ? parseInt(match[1]) : -1 (line 354)
CurrentWallpaperIndex(cookie) ==
  CASE cookie.t = "digits" -> JsNum(cookie.v)
    [] cookie.t = "huge" -> JsInfinity
    [] OTHER -> JsNum(-1)

\* (currentWallpaperIndex + 1) % data.length (line 368)
NextWallpaperIndex(current, length) ==
  IF current.t = "number" THEN JsNum((current.v + 1) % length) ELSE JsNaN

\* what fetch(bingUrl) and res.json() give (lines 363-366)
NoFeed == [kind |-> "none", data |-> <<>>]

FeedItem(k, shape) ==
  [fullUrl |-> IF shape = "fullUrl" THEN <<"https://", "f", Digit(k)>> ELSE Undefined,
   url |-> IF shape = "neither" THEN Undefined ELSE <<"https://", "u", Digit(k)>>]

Feeds ==
  {[kind |-> x, data |-> <<>>] : x \in {"throws", "not ok", "no json", "no array", "array"}}
    \cup {[kind |-> "array", data |-> [k \in 1..n |-> FeedItem(k, shape)]] :
            n \in 1..MaxFeed, shape \in {"fullUrl", "url", "neither"}}

\* nextWallpaperIndex and layoutCustomWallpaper after lines 347-381
Rotate(cfg, cookie, feed) ==
  LET stay == [next |-> JsNum(0), wallpaper |-> cfg.layout_custom_wallpaper] IN
  IF ~cfg.layout_random_wallpaper THEN stay
  ELSE IF feed.kind # "array" \/ feed.data = <<>> THEN stay
  ELSE LET next == NextWallpaperIndex(CurrentWallpaperIndex(cookie), Len(feed.data)) IN
       IF next.t # "number"
       THEN [stay EXCEPT !.next = next]     \* data[NaN].fullUrl throws, line 378 catches
       ELSE LET targetItem == feed.data[next.v + 1]
                targetUrl == IF OrEmpty(targetItem.fullUrl) # <<>>
                             THEN targetItem.fullUrl ELSE targetItem.url IN
            [next |-> next,
             wallpaper |-> IF OrEmpty(targetUrl) # <<>> THEN targetUrl
                           ELSE cfg.layout_custom_wallpaper]

NoWall ==
  [random |-> FALSE, cookie |-> NoCookie, feed |-> NoFeed, next |-> JsNum(0),
   wallpaper |-> <<>>, safeWallpaper |-> <<>>, setCookie |-> FALSE]

\* lines 307-381, 673 and 718-720: the settings, the wallpaper, the cookie
Wall(cfg, cookie, feed) ==
  LET rotated == Rotate(cfg, cookie, feed) IN
  [random |-> cfg.layout_random_wallpaper, cookie |-> cookie, feed |-> feed,
   next |-> rotated.next, wallpaper |-> rotated.wallpaper,
   safeWallpaper |-> sanitizeUrl(rotated.wallpaper),
   setCookie |-> cfg.layout_random_wallpaper]

\* the settings query may fail (lines 343-345): the defaults then stand
SettingsReads == IF settings = NoSettings THEN {TRUE} ELSE BOOLEAN

\* the cookie and the feed are read only with the random wallpaper on
CookiesRead(cfg) == IF cfg.layout_random_wallpaper THEN Cookies ELSE {NoCookie}
FeedsRead(cfg) == IF cfg.layout_random_wallpaper THEN Feeds ELSE {NoFeed}

\* lines 208-541 and 714-720: load, order the categories, select, render
HomeRender ==
  /\ home.pc = "idle" /\ get.pc = "idle"
  /\ \E auth \in BOOLEAN, catalog \in HomeCatalogs,
        sitesOk \in BOOLEAN, orders \in {"ok", "no such table", "error"} :
       IF ~sitesOk \/ ~schema.is_private \/ orders = "error"
       THEN home' = [pc |-> "done", status |-> 500, auth |-> auth, catalog |-> catalog,
                     sites |-> <<>>, orderRows |-> {}, meta |-> <<>>, catalogs |-> <<>>,
                     catalogExists |-> FALSE, currentCatalog |-> <<>>,
                     currentSites |-> <<>>, allLinkActive |-> FALSE,
                     heading |-> <<>>, headingCount |-> 0, cards |-> <<>>,
                     wall |-> NoWall]
       ELSE \E rows \in SqlOrders(Loaded(IF auth THEN 1 ELSE 0)),
               settingsOk \in SettingsReads :
         LET cfg == IF settingsOk THEN settings ELSE NoSettings IN
         \E cookie \in CookiesRead(cfg), feed \in FeedsRead(cfg) :
         LET orderRows == IF orders = "ok" THEN category ELSE {}
             meta == CatalogsWithMeta(orderRows, rows)
             catalogs == NamesOf(meta)
             requested == RequestedCatalog(catalog, catalogs)
             catalogExists == requested # <<>> /\ InSeq(requested, catalogs)
             currentCatalog ==
               IF catalogExists THEN requested
               ELSE IF catalogs # <<>> THEN catalogs[1] ELSE Undefined
             currentSites == CurrentSites(catalogExists, currentCatalog, rows) IN
         home' = [pc |-> "done", status |-> 200, auth |-> auth, catalog |-> catalog,
                  sites |-> rows, orderRows |-> orderRows, meta |-> meta,
                  catalogs |-> catalogs,
                  catalogExists |-> catalogExists, currentCatalog |-> currentCatalog,
                  currentSites |-> currentSites, allLinkActive |-> ~catalogExists,
                  heading |-> IF catalogExists THEN currentCatalog ELSE AllBookmarks,
                  headingCount |-> IF catalogExists THEN Len(currentSites) ELSE Len(rows),
                  cards |-> [k \in 1..Len(currentSites) |-> Card(currentSites[k])],
                  wall |-> Wall(cfg, cookie, feed)]
  /\ UNCHANGED <<sites, category, now, env, post, get,
               settings, indexesChecked, schema, boot, bootLog>>

HomeReturn ==
  /\ home.pc = "done"
  /\ home' = NoHome
  /\ UNCHANGED <<sites, category, now, env, post, get,
               settings, indexesChecked, schema, boot, bootLog>>

-----------------------------------------------------------------------------
(* Specifications *)

NoEnv == [ICON_API |-> Undefined, DISPLAY_CATEGORY |-> Undefined]

\* category A (id 1) is public, category B (id 2) is private
PostCategories ==
  {CategoryRow(1, <<"A">>, 0, JsNum(2)), CategoryRow(2, <<"B">>, 1, JsNum(1))}

\* POST requests racing on an empty table
InitPost ==
  /\ sites = <<>>
  /\ category = PostCategories
  /\ now = 0
  /\ env = NoEnv
  /\ post = [i \in Posts |-> Idle]
  /\ get = NoGet
  /\ home = NoHome
  /\ settings = NoSettings
  /\ Bootstrapped

NextPost ==
  \E i \in Posts :
    \/ PostUnauthorized(i)
    \/ PostBadBody(i)
    \/ PostCheck(i)
    \/ PostLookup(i)
    \/ PostInsert(i)
    \/ PostReturn(i)

SpecPost == InitPost /\ [][NextPost]_vars

\* three stored rows: two under the public category A (the second public or
\* private), one under the private category B, with every mix of two sort
\* orders and two creation times
ReadTables ==
  {<<SiteRow(1, <<"n">>, <<"u", "1">>, Null, Null, 1, <<"A">>, JsNum(s1), 0, 0),
     SiteRow(2, <<"n">>, <<"u", "2">>, Null, Null, 1, <<"A">>, JsNum(s2), p2, t2),
     SiteRow(3, <<"n">>, <<"u", "3">>, Null, Null, 2, <<"B">>, JsNum(s3), 1, t3)>> :
     s1 \in {1, 2}, s2 \in {1, 2}, s3 \in {1, 2}, p2 \in {0, 1},
     t2 \in {0, 1}, t3 \in {0, 1}}

InitRead ==
  /\ sites \in ReadTables
  /\ category = PostCategories
  /\ now = 1
  /\ env = NoEnv
  /\ post = [i \in Posts |-> Idle]
  /\ get = NoGet
  /\ home = NoHome
  /\ settings = NoSettings
  /\ Bootstrapped

\* the INSERT of a POST handled meanwhile (lines 154-157) commits
ConcurrentInsert ==
  /\ Len(sites) < MaxReadSites
  /\ \E priv \in {0, 1} :
       sites' = InsertSite(<<"n">>, <<"u", Digit(Len(sites) + 1)>>, Null, Null, 1,
                           <<"A">>, JsNum(1), priv)
  /\ UNCHANGED <<category, now, env, post, get, home,
               settings, indexesChecked, schema, boot, bootLog>>

NextRead ==
  \/ GetPage
  \/ GetCount
  \/ GetReturn
  \/ HomeRender
  \/ HomeReturn
  \/ ConcurrentInsert

SpecRead == InitRead /\ [][NextRead]_vars

\* two categories, the first named 'a' or 'a ' with a declared order of 1 or 2,
\* the second named 'A', 'b' or '' with a declared order of 1
HomeCategoryTables ==
  {{CategoryRow(1, n1, 0, JsNum(o1)), CategoryRow(2, n2, 0, JsNum(o2))} :
     n1 \in {<<"a">>, <<"a", " ">>}, n2 \in {<<"A">>, <<"b">>, <<>>},
     o1 \in {1, 2}, o2 \in {1}}

NameOfCategory(cats, id) == (CHOOSE c \in cats : c.id = id).catelog

\* three public rows, one in each category and a third in either
HomeTables(cats) ==
  {<<SiteRow(1, <<"n">>, <<"u", "1">>, Null, Null, 1, NameOfCategory(cats, 1), s1, 0, 0),
     SiteRow(2, <<"n">>, <<"u", "2">>, Null, Null, 2, NameOfCategory(cats, 2), s2, 0, t2),
     SiteRow(3, <<"n">>, <<"u", "3">>, Null, Null, c3, NameOfCategory(cats, c3),
             JsNum(s3), 0, 1)>> :
     s1 \in {JsNum(1), JsText}, s2 \in {JsNum(1), JsNum(2)},
     t2 \in {0, 1}, c3 \in {1, 2}, s3 \in {1, 2}}

InitHome ==
  /\ category \in HomeCategoryTables
  /\ sites \in HomeTables(category)
  /\ now = 1
  /\ env \in {[ICON_API |-> Undefined, DISPLAY_CATEGORY |-> d] : d \in {Undefined, <<"a">>}}
  /\ post = [i \in Posts |-> Idle]
  /\ get = NoGet
  /\ home = NoHome
  /\ settings = NoSettings
  /\ Bootstrapped

NextHome ==
  \/ HomeRender
  \/ HomeReturn

SpecHome == InitHome /\ [][NextHome]_vars

\* the texts a site's url may hold: an optional blank, an optional scheme, and
\* up to MaxUrlLen of a host letter, a blank and a slash
CardUrls ==
  {pre \o scheme \o body :
     pre \in {<<>>, <<" ">>},
     scheme \in {<<>>, <<"http://">>, <<"HTTP://">>, <<JavascriptScheme>>},
     body \in UNION {[1..k -> {"h", " ", "/"}] : k \in 0..MaxUrlLen}}

CardLogos == {Null, <<JavascriptScheme, "h">>, <<"https://", "h", "/", "h">>}

\* one public site of one category, its url and logo as the store may hold them
InitCards ==
  /\ category = {CategoryRow(1, <<"a">>, 0, JsNum(1))}
  /\ \E u \in CardUrls, l \in CardLogos :
       sites = <<SiteRow(1, <<"n">>, u, l, Null, 1, <<"a">>, JsNum(1), 0, 0)>>
  /\ now = 1
  /\ env = NoEnv
  /\ post = [i \in Posts |-> Idle]
  /\ get = NoGet
  /\ home = NoHome
  /\ settings = NoSettings
  /\ Bootstrapped

SpecCards == InitCards /\ [][NextHome]_vars

\* a public row under category A and a private one under B, on a table that
\* may lack either column the bootstrap adds (a lacking is_private reads 0, a
\* lacking catelog_name null)
BootTables(columns) ==
  <<SiteRow(1, <<"n">>, <<"u", "1">>, Null, Null, 1,
            IF columns.catelog_name THEN <<"A">> ELSE Null, JsNum(1), 0, 0),
    SiteRow(2, <<"n">>, <<"u", "2">>, Null, Null, 2,
            IF columns.catelog_name THEN <<"B">> ELSE Null, JsNum(1),
            IF columns.is_private THEN 1 ELSE 0, 1)>>

\* a fresh process: the flag is not set and no request has arrived
InitBoot ==
  /\ schema \in [is_private : BOOLEAN, catelog_name : BOOLEAN]
  /\ sites = BootTables(schema)
  /\ category = PostCategories
  /\ now = 2
  /\ env = NoEnv
  /\ post = [i \in Posts |-> Idle]
  /\ get = NoGet
  /\ home = NoHome
  /\ settings = NoSettings
  /\ indexesChecked = FALSE
  /\ boot = [i \in Gets |-> NoBoot]
  /\ bootLog = NoRuns

NextBoot ==
  \/ \E i \in Gets :
       \/ BootEnter(i)
       \/ BootBatch(i)
       \/ BootProbePrivate(i)
       \/ BootAlterPrivate(i)
       \/ BootProbeName(i)
       \/ BootAlterName(i)
       \/ BootBackfill(i)
  \/ GetPage
  \/ GetCount
  \/ GetReturn

SpecBoot == InitBoot /\ [][NextBoot]_vars

\* the settings table with the random wallpaper on or off and with or without
\* a configured wallpaper, over one public site
InitWall ==
  /\ settings \in [layout_random_wallpaper : BOOLEAN,
                    layout_custom_wallpaper : {<<>>, <<"https://", "w">>}]
  /\ category = {CategoryRow(1, <<"a">>, 0, JsNum(1))}
  /\ sites = <<SiteRow(1, <<"n">>, <<"http://", "h">>, Null, Null, 1, <<"a">>,
                       JsNum(1), 0, 0)>>
  /\ now = 1
  /\ env = NoEnv
  /\ post = [i \in Posts |-> Idle]
  /\ get = NoGet
  /\ home = NoHome
  /\ Bootstrapped

SpecWall == InitWall /\ [][NextHome]_vars

-----------------------------------------------------------------------------
(* Properties of POST /api/config *)

Done(i) == post[i].pc = "done"

\* C2: no two rows of sites have the same url.
C2_UrlUnique ==
  \A j, k \in 1..Len(sites) : sites[j].url = sites[k].url => j = k

\* C3 as stated: an authenticated POST whose trimmed url is already stored is
\* answered 409 at once and leaves sites as it was (read for requests that no failure
\* of the store turns into a 500).
C3_DuplicateIs409 ==
  [][\A i \in Posts :
       (/\ post[i].pc = "idle" /\ post'[i].pc # "idle"
        /\ post'[i].auth /\ post'[i].dup /\ post'[i].status # 500)
         => (Done(i)' /\ post'[i].status = 409 /\ sites' = sites)]_vars

\* C3 amended: an authenticated POST with a readable body, a non-blank name and
\* url and a catelogId, whose trimmed url is already stored and whose lookup of
\* the url does not fail, is answered 409 after that one query and leaves sites
\* as it was.
C3_ValidDuplicateIs409 ==
  [][\A i \in Posts :
       (/\ post[i].pc = "idle" /\ post'[i].pc # "idle"
        /\ post'[i].auth /\ post'[i].parsed /\ post'[i].fieldsOk /\ post'[i].dup
        /\ post'[i].status # 500)
         => (/\ Done(i)' /\ post'[i].status = 409 /\ post'[i].queries = 1
             /\ sites' = sites)]_vars

\* a duplicate was refused while the table holds the row it duplicates
C3_Witness ==
  \E i \in Posts :
    /\ Done(i) /\ post[i].status = 409 /\ post[i].dup /\ post[i].fieldsOk
    /\ Len(sites) >= 1

CategoryOf(row) == CHOOSE c \in category : c.id = row.catelog_id

\* C4: a row inserted under a private category is stored private whatever the
\* body asked; under a non-private category it is private exactly when the
\* body's is_private is truthy.
C4_PrivateCategoryForcesPrivate ==
  \A i \in Posts :
    (Done(i) /\ post[i].rowId # 0) =>
      LET row == sites[post[i].rowId] IN
      /\ \E c \in category : c.id = row.catelog_id
      /\ row.catelog_name = CategoryOf(row).catelog
      /\ IF CategoryOf(row).is_private = 1
         THEN row.is_private = 1
         ELSE row.is_private = (IF post[i].reqPrivate THEN 1 ELSE 0)

\* a row was inserted under the private category by a request that did not ask
\* for a private row
C4_Witness ==
  \E i \in Posts :
    /\ Done(i) /\ post[i].rowId # 0 /\ ~post[i].reqPrivate
    /\ CategoryOf(sites[post[i].rowId]).is_private = 1
    /\ sites[post[i].rowId].is_private = 1

Eligible(i) == post[i].auth /\ post[i].fieldsOk /\ post[i].catKnown

\* C5 as stated: a row is inserted only for an authenticated request with all
\* three fields and a known category; any other request is answered 401 (before
\* the body is read or the store is queried) or 400, and inserts nothing (read
\* for requests that no unreadable body or failure of the store turns into a 500).
C5_OnlyEligibleInsert ==
  \A i \in Posts :
    (Done(i) /\ post[i].status # 500) =>
      /\ post[i].rowId # 0 => Eligible(i)
      /\ ~Eligible(i) =>
           /\ post[i].rowId = 0
           /\ post[i].status \in {400, 401}
           /\ post[i].status = 401 <=> ~post[i].auth
           /\ ~post[i].auth => (~post[i].parsed /\ post[i].queries = 0)

\* C5 amended: as C5, except that a request that is not eligible may also be
\* answered 500 (unreadable body, failed store query) or 409 (unknown category
\* and a url that is already stored: the url is looked up before the category).
C5_IneligibleNeverInserts ==
  \A i \in Posts :
    Done(i) =>
      /\ post[i].rowId # 0 => (Eligible(i) /\ post[i].status = 201)
      /\ ~Eligible(i) =>
           /\ post[i].rowId = 0
           /\ IF ~post[i].auth
                THEN post[i].status = 401 /\ ~post[i].parsed /\ post[i].queries = 0
              ELSE IF ~post[i].parsed
                THEN post[i].status = 500 /\ post[i].queries = 0
              ELSE IF ~post[i].fieldsOk
                THEN post[i].status = 400 /\ post[i].queries = 0
              ELSE \/ post[i].status = 500
                   \/ post[i].dup /\ post[i].status = 409 /\ post[i].queries = 1
                   \/ ~post[i].dup /\ post[i].status = 400 /\ post[i].queries = 2

\* an authenticated request with all fields was refused for its unknown category
C5_Witness ==
  \E i \in Posts :
    /\ Done(i) /\ post[i].auth /\ post[i].fieldsOk /\ ~post[i].catKnown
    /\ post[i].status = 400 /\ post[i].queries = 2

\* C15: the requests here supply no logo, so every stored row has the logo
\* derived from its url: ICON_API followed by the url's host when ICON_API is
\* set, 'https://favicon.im/', the host and '?larger=true' when it is not, and
\* null when the url has no http:// or https:// scheme; also for a url that
\* came with a leading blank.
C15_LogoDerivedFromUrl ==
  \A k \in 1..Len(sites) :
    sites[k].logo =
      IF HasHttpScheme(sites[k].url)
      THEN IF OrEmpty(env.ICON_API) = <<>>
           THEN FaviconIm \o UpToSlash(Tail(sites[k].url)) \o LargerSuffix
           ELSE env.ICON_API \o UpToSlash(Tail(sites[k].url))
      ELSE Null

-----------------------------------------------------------------------------
(* Properties of GET /api/config and of the homepage's load *)

NoPrivateIn(rows) == \A k \in 1..Len(rows) : rows[k].is_private # 1

\* C1: a caller who is not an admin is never given a row with is_private = 1,
\* neither in the data of GET /api/config, whatever its filters and paging, nor
\* among the sites the homepage loads and shows.
C1_PrivateRowsHidden ==
  /\ (get.pc \in {"count", "done"} /\ ~get.q.auth) => NoPrivateIn(get.data)
  /\ (home.pc = "done" /\ ~home.auth) =>
       (NoPrivateIn(home.sites) /\ NoPrivateIn(home.currentSites))

\* an anonymous GET was answered with rows while a private row that passes the
\* request's other filters is stored
C1_Witness ==
  /\ get.pc = "done" /\ get.status = 200 /\ ~get.q.auth /\ get.data # <<>>
  /\ \E r \in Rows : r.is_private = 1 /\ Matches(r, [get.q EXCEPT !.auth = TRUE])

\* sort_order ascending, then create_time descending: a comes strictly before b
Before(a, b) ==
  \/ a.sort_order.v < b.sort_order.v
  \/ a.sort_order.v = b.sort_order.v /\ a.create_time > b.create_time

\* data is the rows at positions offset .. offset + pageSize - 1 of the rows M
\* put in that order (rows that tie may take each other's place)
IsPageOf(data, M, page, pageSize) ==
  LET offset == (page - 1) * pageSize
      left == Cardinality(M) - offset IN
  /\ Len(data) <= pageSize
  /\ Len(data) = (IF left < 0 THEN 0 ELSE IF left < pageSize THEN left ELSE pageSize)
  /\ \A k \in 1..Len(data) : data[k] \in M
  /\ \A j, k \in 1..Len(data) : j < k => (data[j] # data[k] /\ ~Before(data[k], data[j]))
  /\ \A k \in 1..Len(data) :
       /\ Cardinality({r \in M : Before(r, data[k])}) <= offset + k - 1
       /\ Cardinality({r \in M : ~Before(data[k], r)}) >= offset + k

\* C6: for page >= 1 and pageSize >= 1 the page query returns at most pageSize
\* rows: the rows at positions (page-1)*pageSize .. page*pageSize-1 of the
\* filtered rows ordered by sort_order ascending then create_time descending,
\* in that order.
C6_PageIsOrderedSlice ==
  [][(get.pc = "idle" /\ get'.pc \in {"count", "done"} /\ get'.status # 500
      /\ get'.page >= 1 /\ get'.pageSize >= 1)
       => IsPageOf(get'.data, Matching(get'.q), get'.page, get'.pageSize)]_vars

\* the second page of two was asked of three matching rows and holds the last
C6_Witness ==
  /\ get.pc = "done" /\ get.status = 200 /\ get.page = 2 /\ get.pageSize = 2
  /\ Len(get.data) = 1 /\ Cardinality(Matching(get.q)) = 3
  /\ \A r \in Matching(get.q) : ~Before(get.data[1], r)

\* C7: with pageSize >= 1000 the answer follows the page query with no count
\* query, and total is the number of rows returned plus (page-1)*pageSize; with
\* pageSize < 1000 total is the store's COUNT(*) under the page query's WHERE
\* clause and parameters.
C7_TotalRule ==
  [][(get.pc # "done" /\ get'.pc = "done" /\ get'.status = 200)
       => IF get'.pageSize >= 1000
          THEN /\ get.pc = "idle" /\ ~get'.counted
               /\ get'.total = Len(get'.data) + (get'.page - 1) * get'.pageSize
          ELSE /\ get.pc = "count" /\ get'.counted /\ get'.q = get.q
               /\ get'.total = Cardinality(Matching(get'.q))]_vars

\* page 2 of 1000 is empty and reports a total of 1000 although fewer rows match
C7_Witness ==
  /\ get.pc = "done" /\ get.status = 200 /\ get.pageSize = 1000 /\ get.page = 2
  /\ get.data = <<>> /\ get.total = 1000 /\ ~get.counted
  /\ Cardinality(Matching(get.q)) \in 1..4

-----------------------------------------------------------------------------
(* Properties of the homepage's category menu and selection *)

Rendered == home.pc = "done" /\ home.status = 200

SitesNamed(name) == {k \in 1..Len(home.sites) : CategoryName(home.sites[k]) = name}

NumericOr9999(x) == IF x.t = "number" THEN x.v ELSE 9999

\* the least sort_order among the loaded sites of the name
MinSortOf(name) ==
  CHOOSE m \in {NumericOr9999(home.sites[k].sort_order) : k \in SitesNamed(name)} :
    \A k \in SitesNamed(name) : m <= NumericOr9999(home.sites[k].sort_order)

\* the key (order, fallback, name) of x is not after that of y, names compared
\* without regard to letter case
KeyNotAfter(x, y) ==
  \/ x.order < y.order
  \/ x.order = y.order /\ x.fallback < y.fallback
  \/ x.order = y.order /\ x.fallback = y.fallback /\ localeCompare(x.name, y.name) <= 0

Position(name) == CHOOSE k \in 1..Len(home.catalogs) : home.catalogs[k] = name

\* C8: the menu lists each category name found among the loaded sites once,
\* sorted by (order, fallback, name): fallback is the least sort_order of the
\* name's loaded sites (9999 for a value that is no number), order is the
\* declared sort_order of the category row of that name, or fallback without
\* one.  With declared orders 2 and 1, the category declared 1 comes first.
C8_MenuSortedByKey ==
  Rendered =>
    /\ {home.catalogs[k] : k \in 1..Len(home.catalogs)}
         = {CategoryName(home.sites[k]) : k \in 1..Len(home.sites)}
    /\ \A j, k \in 1..Len(home.catalogs) : home.catalogs[j] = home.catalogs[k] => j = k
    /\ \A k \in 1..Len(home.meta) :
         LET m == home.meta[k] IN
         /\ m.name = home.catalogs[k]
         /\ m.fallback = MinSortOf(m.name)
         /\ m.order = (IF \E c \in home.orderRows : c.catelog = m.name
                       THEN (CHOOSE c \in home.orderRows : c.catelog = m.name).sort_order.v
                       ELSE m.fallback)
    /\ \A j, k \in 1..Len(home.meta) : j < k => KeyNotAfter(home.meta[j], home.meta[k])
    /\ \A c, d \in home.orderRows :
         (/\ c.sort_order.v = 2 /\ d.sort_order.v = 1
          /\ InSeq(c.catelog, home.catalogs) /\ InSeq(d.catelog, home.catalogs))
           => Position(d.catelog) < Position(c.catelog)

\* category a is declared 2 and category b is declared 1, the first site
\* delivered is one of a, and the menu lists b before a
C8_Witness ==
  /\ Rendered
  /\ home.catalogs = << <<"b">>, <<"a">> >>
  /\ \E c, d \in home.orderRows :
       /\ c.catelog = <<"a">> /\ c.sort_order.v = 2
       /\ d.catelog = <<"b">> /\ d.sort_order.v = 1
  /\ CategoryName(home.sites[1]) = <<"a">>

\* C9: the menu is the same whatever the order in which the store delivers the
\* same site rows (here: whichever way it orders rows that tie under ORDER BY).
C9_MenuIndependentOfDelivery ==
  Rendered =>
    \A rows \in SqlOrders({home.sites[k] : k \in 1..Len(home.sites)}) :
      NamesOf(CatalogsWithMeta(home.orderRows, rows)) = home.catalogs

\* the request's catalog parameter is 'all' in some letter case, blanks aside
AsksForAll == LowerText(Trim(OrEmpty(home.catalog))) = AllWord

\* C10: a request with catalog=all, in any letter case and with blanks around
\* it, selects no catalog even when DISPLAY_CATEGORY names an existing one:
\* catalogExists is false, every loaded site is shown, no menu entry is active
\* and the 'all' link is.
C10_AllIgnoresDefault ==
  (Rendered /\ AsksForAll) =>
    /\ ~home.catalogExists
    /\ home.currentSites = home.sites
    /\ home.allLinkActive
    /\ home.heading = AllBookmarks /\ home.headingCount = Len(home.sites)

\* ' ALL ' was asked while DISPLAY_CATEGORY names a catalog of the menu
C10_Witness ==
  /\ Rendered /\ home.catalog = <<" ", "A", "L", "L", " ">>
  /\ OrEmpty(env.DISPLAY_CATEGORY) # <<>>
  /\ InSeq(Trim(env.DISPLAY_CATEGORY), home.catalogs)
  /\ ~home.catalogExists /\ Len(home.currentSites) = 3

\* the request names a catalog that the menu does not list, or names none
\* while DISPLAY_CATEGORY is unset or names no catalog of the menu
Unresolved ==
  LET requested == Trim(OrEmpty(home.catalog))
      defaultCat == Trim(OrEmpty(env.DISPLAY_CATEGORY)) IN
  /\ ~AsksForAll
  /\ IF requested = <<>>
     THEN OrEmpty(env.DISPLAY_CATEGORY) = <<>> \/ ~InSeq(defaultCat, home.catalogs)
     ELSE ~InSeq(requested, home.catalogs)

-----------------------------------------------------------------------------
(* Properties of sanitizeUrl and of the cards *)

\* the trimmed text begins with http:// or https:// in some letter case
HasHttpPrefix(text) ==
  /\ text \notin {Undefined, Null}
  /\ Trim(text) # <<>>
  /\ Head(Trim(text)) \in {"http://", "https://", "HTTP://"}

\* the text, trimmed, is a well-formed absolute URL of scheme http or https
WellFormedHttp(text) ==
  /\ HasHttpPrefix(text)
  /\ LET host == UpToSlash(SkipSlashes(Tail(Trim(text)))) IN
     host # <<>> /\ \A k \in 1..Len(host) : host[k] # " "

\* C12 as stated: a card carries a link other than '#' only for a site url that
\* is a well-formed absolute http(s) URL, and an image only for such a logo.
C12_OnlyWellFormedEmitted ==
  Rendered =>
    \A k \in 1..Len(home.cards) :
      /\ home.cards[k].href # Hash => WellFormedHttp(home.currentSites[k].url)
      /\ home.cards[k].img => WellFormedHttp(home.currentSites[k].logo)

\* C12 amended: a card carries a link other than '#' exactly for a site url
\* that, trimmed, begins with http:// or https:// in some letter case: the
\* parsed URL's href when the text is well formed, the trimmed text as it
\* stands when it is not; and an image exactly for such a logo.  Any other
\* text (absent, blank, without a scheme, javascript:) gives '#' and no image.
C12_OnlyHttpPrefixEmitted ==
  Rendered =>
    \A k \in 1..Len(home.cards) :
      LET site == home.currentSites[k]
          card == home.cards[k] IN
      /\ card.href # Hash <=> HasHttpPrefix(site.url)
      /\ card.hasValidUrl <=> HasHttpPrefix(site.url)
      /\ card.img <=> HasHttpPrefix(site.logo)
      /\ HasHttpPrefix(site.url) =>
           /\ Head(card.href) \in {"http://", "https://", "HTTP://"}
           /\ WellFormedHttp(site.url) => card.href = ParseUrl(Trim(site.url)).href
           /\ ~WellFormedHttp(site.url) => card.href = Trim(site.url)
      /\ card.img => Head(card.src) \in {"http://", "https://", "HTTP://"}
      /\ ~card.img => card.src = <<>>

\* a site whose url and logo are javascript: texts is shown with '#' and with
\* its initial letter
C12_Witness ==
  /\ Rendered /\ Len(home.cards) = 1
  /\ home.currentSites[1].url = <<JavascriptScheme, "h">>
  /\ home.currentSites[1].logo = <<JavascriptScheme, "h">>
  /\ home.cards[1].href = Hash /\ ~home.cards[1].img

-----------------------------------------------------------------------------
(* Properties of the schema bootstrap of GET /api/config *)

\* C13: once an execution of the bootstrap block has ended, by line 37 or by
\* the catch of line 38, no request begins another.
C13_NoSecondExecution ==
  [][bootLog.ended >= 1 => bootLog'.begun = bootLog.begun]_vars

\* C16: a request whose bootstrap threw is not answered there: it goes on to
\* its list query, and it is answered 500 exactly when the list query or the
\* count query failed, else 200 with the rows and the total of those queries.
C16_BootFailureSwallowed ==
  [][/\ \A i \in Gets : boot'[i].failed => boot'[i].pc = "ready"
     /\ (get.pc = "idle" /\ get'.pc # "idle" /\ get'.bootFailed) =>
          /\ get'.queryFailed <=> (get'.pc = "done" /\ get'.status = 500)
          /\ ~get'.queryFailed =>
               /\ IsPageOf(get'.data, Matching(get'.q), get'.page, get'.pageSize)
               /\ get'.pc = "done" =>
                    /\ get'.status = 200
                    /\ get'.total = Len(get'.data) + (get'.page - 1) * get'.pageSize
     /\ (get.pc = "count" /\ get'.pc # "count" /\ get.bootFailed) =>
          /\ get'.pc = "done"
          /\ get'.queryFailed <=> get'.status = 500
          /\ ~get'.queryFailed =>
               /\ get'.status = 200 /\ get'.data = get.data
               /\ get'.total = Cardinality(Matching(get.q))]_vars

\* a request whose bootstrap threw was answered 200 with a row
C16_Witness ==
  /\ get.pc = "done" /\ get.bootFailed /\ get.status = 200 /\ get.data # <<>>
  /\ ~indexesChecked

-----------------------------------------------------------------------------
(* Properties of the wallpaper rotation *)

\* the random wallpaper is on and the feed gave n >= 1 items
FeedFetched ==
  Rendered /\ home.wall.random /\ home.wall.feed.kind = "array"
           /\ home.wall.feed.data # <<>>

\* the wallpaper the feed's item k gives: its fullUrl, else its url, else the
\* configured wallpaper
WallpaperOfItem(k) ==
  LET item == home.wall.feed.data[k + 1] IN
  IF OrEmpty(item.fullUrl) # <<>> THEN item.fullUrl
  ELSE IF OrEmpty(item.url) # <<>> THEN item.url
  ELSE settings.layout_custom_wallpaper

\* C14: with the random wallpaper on and n >= 1 items fetched, a request whose
\* cookie holds i (-1 without a readable one) is given item (i+1) mod n as the
\* wallpaper and the cookie (i+1) mod n; for a cookie of any number of digits
\* that is an index among the n items.
C14_NextIndexIsSuccessorModN ==
  FeedFetched =>
    LET n == Len(home.wall.feed.data)
        cookie == home.wall.cookie IN
    /\ home.wall.setCookie
    /\ home.wall.next.t = "number" /\ home.wall.next.v \in 0..(n - 1)
    /\ cookie.t = "digits" => home.wall.next.v = (cookie.v + 1) % n
    /\ cookie.t \in {"absent", "garbage"} => home.wall.next.v = 0
    /\ home.wall.wallpaper = WallpaperOfItem(home.wall.next.v)

\* C17: the response sets the wallpaper_index cookie exactly when the random
\* wallpaper is on; its value is an integer in 0..n-1 when n >= 1 items were
\* fetched, and 0, with the configured wallpaper used, when the fetch failed,
\* was not ok or gave no items.
C17_CookieValueInRange ==
  Rendered =>
    /\ home.wall.setCookie <=> home.wall.random
    /\ FeedFetched =>
         /\ home.wall.next.t = "number"
         /\ home.wall.next.v \in 0..(Len(home.wall.feed.data) - 1)
    /\ (home.wall.random /\ ~FeedFetched) =>
         /\ home.wall.next = JsNum(0)
         /\ home.wall.wallpaper = settings.layout_custom_wallpaper

=============================================================================
